---- MODULE Spec2Model ----
(***************************************************************************)
(* Model of the dashboard v2.0.0:                                          *)
(*   - pages/Feedback_and_Satisfaction.py: parse_scores, parse_tags and    *)
(*     the has_scores / has_tags row predicates that call them;            *)
(*   - app.py: one session of the home page (main), its runs and the       *)
(*     session state they write;                                           *)
(*   - pages/Cost_and_Performance.py and pages/Feedback_and_Satisfaction   *)
(*     .py: one run of a page's main over the stored tables, the cards it  *)
(*     shows and the columns it reads; safe_hist_bins.                     *)
(* Python values are records [t |-> type tag, v |-> payload]; a Python     *)
(* string is the sequence of its characters. A table is its set of columns *)
(* and the sequence of its rows; costs are counted in $0.001, latencies in *)
(* seconds, and means and quantiles are exact fractions.                   *)
(***************************************************************************)
EXTENDS Integers, Sequences, FiniteSets, TLC

\* ------------------------------------------------------------------ bounds
\* longest string enumerated exhaustively over SmallChars
MaxLen == 3
\* longest actual list passed to the parsers
MaxList == 3
\* number of distinct contents the bucket can hold (versions of the result files)
MaxVer == 2
\* most rows of a questions table
MaxRows == 1

\* ----------------------------------------------------------- Python values
PyNone == [t |-> "none", v |-> <<>>]
PyNaN == [t |-> "nan", v |-> <<>>]
PyInt(n) == [t |-> "int", v |-> <<n>>]
\* a float read from a literal with an exponent: mantissa and exponent
PyFloat(m, e) == [t |-> "float", v |-> <<m, e>>]
PyStr(s) == [t |-> "str", v |-> s]
PyList(l) == [t |-> "list", v |-> l]
\* a dict is the sequence of its <<key, value>> items in insertion order
PyDict(items) == [t |-> "dict", v |-> items]

\* len(x): defined for str, list and dict; TypeError for the other types
HasLen(x) == x.t \in {"str", "list", "dict"}

\* the outcome of a call: a returned value or a raised exception
Returned(x) == [raised |-> FALSE, val |-> x, exc |-> "none"]
Raised(e) == [raised |-> TRUE, val |-> PyNone, exc |-> e]

\* ------------------------------------------------------------ characters
Digits == {"0", "1", "2", "3", "4", "5", "6", "7", "8", "9"}
DigitVal(c) ==
  CASE c = "0" -> 0 [] c = "1" -> 1 [] c = "2" -> 2 [] c = "3" -> 3
    [] c = "4" -> 4 [] c = "5" -> 5 [] c = "6" -> 6 [] c = "7" -> 7
    [] c = "8" -> 8 [] c = "9" -> 9
Letters == {"a", "b", "c", "e", "l", "m", "n", "u", "x"}
WS == {" "}
\* every character that occurs in a modelled string
Chars == Digits \cup Letters \cup WS \cup {",", ":", "[", "]", "{", "}", "\"", "-"}

\* --------------------------------------------------- json.loads (decoder)
\* Result of scanning one JSON value: ok, the decoded value, the index after it
Fail == [ok |-> FALSE, val |-> PyNone, end |-> 0]
Ok(x, e) == [ok |-> TRUE, val |-> x, end |-> e]

\* json.decoder WHITESPACE.match(s, i).end()
RECURSIVE SkipWS(_, _)
SkipWS(s, i) == IF i <= Len(s) /\ s[i] \in WS THEN SkipWS(s, i + 1) ELSE i

StartsWith(s, i, w) ==
  /\ i + Len(w) - 1 <= Len(s)
  /\ \A k \in 1..Len(w) : s[i + k - 1] = w[k]

RECURSIVE DigitsEnd(_, _)
DigitsEnd(s, i) == IF i <= Len(s) /\ s[i] \in Digits THEN DigitsEnd(s, i + 1) ELSE i

\* the number written by the digits s[i..j-1]
RECURSIVE IntOf(_, _, _)
IntOf(s, i, j) == IF i >= j THEN 0 ELSE IntOf(s, i, j - 1) * 10 + DigitVal(s[j - 1])

\* NUMBER_RE = (-?(?:0|[1-9][0-9]*))(\.[0-9]+)?([eE][-+]?[0-9]+)? matched at i
\* (Chars has no ".", "E" or "+")
ScanNumber(s, i) ==
  LET neg == i <= Len(s) /\ s[i] = "-"
      d == IF neg THEN i + 1 ELSE i
      hasDigit == d <= Len(s) /\ s[d] \in Digits
      ie == IF s[d] = "0" THEN d + 1 ELSE DigitsEnd(s, d)
      mant == (IF neg THEN -1 ELSE 1) * IntOf(s, d, ie)
      eneg == ie + 1 <= Len(s) /\ s[ie + 1] = "-"
      es == IF eneg THEN ie + 2 ELSE ie + 1
      hasExp == ie <= Len(s) /\ s[ie] = "e" /\ es <= Len(s) /\ s[es] \in Digits
      ee == DigitsEnd(s, es)
      expo == (IF eneg THEN -1 ELSE 1) * IntOf(s, es, ee)
  IN  IF ~hasDigit THEN Fail
      ELSE IF hasExp THEN Ok(PyFloat(mant, expo), ee)
      ELSE Ok(PyInt(mant), ie)

\* index of the next double quote at or after i, 0 when there is none
RECURSIVE QuoteAt(_, _)
QuoteAt(s, i) ==
  IF i > Len(s) THEN 0 ELSE IF s[i] = "\"" THEN i ELSE QuoteAt(s, i + 1)

\* scanstring(s, i): i is the index after the opening quote
\* (Chars has no backslash and no control character)
ScanString(s, i) ==
  LET q == QuoteAt(s, i)
  IN  IF q = 0 THEN Fail ELSE Ok(PyStr(SubSeq(s, i, q - 1)), q + 1)

\* dict(pairs): a repeated key keeps its first position and takes the last value
DictSet(items, k, x) ==
  IF \E n \in 1..Len(items) : items[n][1] = k
  THEN [n \in 1..Len(items) |-> IF items[n][1] = k THEN <<k, x>> ELSE items[n]]
  ELSE Append(items, <<k, x>>)

RECURSIVE ScanOnce(_, _)
RECURSIVE ArrayRest(_, _, _)
RECURSIVE ObjectRest(_, _, _)

\* the loop of JSONArray: a value at i, then "]" or "," and the next value
ArrayRest(s, i, acc) ==
  LET r == ScanOnce(s, i)
      j == SkipWS(s, r.end)
  IN  IF ~r.ok THEN Fail
      ELSE IF j > Len(s) THEN Fail
      ELSE IF s[j] = "]" THEN Ok(PyList(Append(acc, r.val)), j + 1)
      ELSE IF s[j] # "," THEN Fail
      ELSE ArrayRest(s, SkipWS(s, j + 1), Append(acc, r.val))

\* JSONArray(s, i): i is the index after "["
JSONArray(s, i) ==
  LET j == SkipWS(s, i)
  IN  IF j <= Len(s) /\ s[j] = "]" THEN Ok(PyList(<<>>), j + 1)
      ELSE ArrayRest(s, j, <<>>)

\* the loop of JSONObject: a quoted key at i, ":", a value, then "}" or ","
ObjectRest(s, i, acc) ==
  IF ~(i <= Len(s) /\ s[i] = "\"") THEN Fail
  ELSE
    LET k == ScanString(s, i + 1)
        c == SkipWS(s, k.end)
        r == ScanOnce(s, SkipWS(s, c + 1))
        j == SkipWS(s, r.end)
    IN  IF ~k.ok THEN Fail
        ELSE IF ~(c <= Len(s) /\ s[c] = ":") THEN Fail
        ELSE IF ~r.ok THEN Fail
        ELSE IF j > Len(s) THEN Fail
        ELSE IF s[j] = "}" THEN Ok(PyDict(DictSet(acc, k.val, r.val)), j + 1)
        ELSE IF s[j] # "," THEN Fail
        ELSE ObjectRest(s, SkipWS(s, j + 1), DictSet(acc, k.val, r.val))

\* JSONObject(s, i): i is the index after "{"
JSONObject(s, i) ==
  LET j == SkipWS(s, i)
  IN  IF j <= Len(s) /\ s[j] = "}" THEN Ok(PyDict(<<>>), j + 1)
      ELSE ObjectRest(s, j, <<>>)

\* scanner.scan_once(s, i): the JSON value that starts exactly at i
ScanOnce(s, i) ==
  IF i > Len(s) THEN Fail
  ELSE IF s[i] = "\"" THEN ScanString(s, i + 1)
  ELSE IF s[i] = "{" THEN JSONObject(s, i + 1)
  ELSE IF s[i] = "[" THEN JSONArray(s, i + 1)
  ELSE IF StartsWith(s, i, <<"n", "u", "l", "l">>) THEN Ok(PyNone, i + 4)
  ELSE ScanNumber(s, i)

\* json.loads(s): one value between optional whitespace, or JSONDecodeError
json_loads(s) ==
  LET r == ScanOnce(s, SkipWS(s, 1))
  IN  IF r.ok /\ SkipWS(s, r.end) = Len(s) + 1
      THEN Returned(r.val)
      ELSE Raised("JSONDecodeError")

\* ------------------------------------------------------ str.split / strip
RECURSIVE SplitAt(_, _, _)
SplitAt(s, i, cur) ==
  IF i > Len(s) THEN <<cur>>
  ELSE IF s[i] = "," THEN <<cur>> \o SplitAt(s, i + 1, <<>>)
  ELSE SplitAt(s, i + 1, Append(cur, s[i]))

\* s.split(',')
str_split(s) == SplitAt(s, 1, <<>>)

RECURSIVE LStrip(_)
LStrip(s) == IF Len(s) > 0 /\ Head(s) \in WS THEN LStrip(Tail(s)) ELSE s

RECURSIVE RStrip(_)
RStrip(s) ==
  IF Len(s) > 0 /\ s[Len(s)] \in WS THEN RStrip(SubSeq(s, 1, Len(s) - 1)) ELSE s

\* s.strip()
str_strip(s) == RStrip(LStrip(s))

\* mutant: the pieces are filtered but not stripped
RECURSIVE StripNonEmpty_NoStrip(_)
StripNonEmpty_NoStrip(ps) ==
  IF Len(ps) = 0 THEN <<>>
  ELSE (IF Len(str_strip(Head(ps))) > 0 THEN <<PyStr(Head(ps))>> ELSE <<>>)
       \o StripNonEmpty_NoStrip(Tail(ps))

\* [t.strip() for t in pieces if t.strip()]
RECURSIVE StripNonEmpty(_)
StripNonEmpty(ps) ==
  IF Len(ps) = 0 THEN <<>>
  ELSE LET t == str_strip(Head(ps))
       IN  (IF Len(t) > 0 THEN <<PyStr(t)>> ELSE <<>>) \o StripNonEmpty(Tail(ps))

\* ----------------------------------------------------------------- pd.isna
\* the truth value `if pd.isna(x) or ...` takes: "true", "false" or "raise".
\* A scalar gives a bool. A list gives an array of one bool per element, and
\* bool() of an array is the element for size 1 and ValueError for size >= 2;
\* for size 0 it is False (with a deprecation warning) before NumPy 2.2 and
\* ValueError from NumPy 2.2 on: emptyRaises says which build runs.
IsNaTruth(x, emptyRaises) ==
  IF x.t # "list" THEN (IF x.t \in {"none", "nan"} THEN "true" ELSE "false")
  ELSE IF Len(x.v) = 0 THEN (IF emptyRaises THEN "raise" ELSE "false")
  ELSE IF Len(x.v) = 1 THEN (IF x.v[1].t \in {"none", "nan"} THEN "true" ELSE "false")
  ELSE "raise"

IsStr(x, s) == x.t = "str" /\ x.v = s

\* ------------------------------------------- parse_scores and parse_tags
\* mutant: a string is never decoded, every string gives the empty list
parse_scores_NoDecode(scores_val, emptyRaises) ==
  LET na == IsNaTruth(scores_val, emptyRaises)
  IN  IF na = "raise" THEN Raised("ValueError")
      ELSE IF scores_val.t = "list" /\ na = "false" THEN Returned(scores_val)
      ELSE Returned(PyList(<<>>))

\* mutant: the except branch splits on commas, as parse_tags does
parse_scores_WithFallback(scores_val, emptyRaises) ==
  LET na == IsNaTruth(scores_val, emptyRaises)
  IN  IF na = "raise" THEN Raised("ValueError")
      ELSE IF na = "true" \/ IsStr(scores_val, <<>>) \/ IsStr(scores_val, <<"[", "]">>)
        THEN Returned(PyList(<<>>))
      ELSE IF scores_val.t = "list" THEN Returned(scores_val)
      ELSE IF scores_val.t = "str"
        THEN LET r == json_loads(scores_val.v)
             IN  IF r.raised
                 THEN Returned(PyList(StripNonEmpty(str_split(scores_val.v))))
                 ELSE r
      ELSE Returned(PyList(<<>>))

parse_scores(scores_val, emptyRaises) ==
  LET na == IsNaTruth(scores_val, emptyRaises)
  IN  IF na = "raise" THEN Raised("ValueError")
      ELSE IF na = "true" \/ IsStr(scores_val, <<>>) \/ IsStr(scores_val, <<"[", "]">>)
        THEN Returned(PyList(<<>>))
      ELSE IF scores_val.t = "list" THEN Returned(scores_val)
      ELSE IF scores_val.t = "str"
        THEN LET r == json_loads(scores_val.v)
             IN  IF r.raised THEN Returned(PyList(<<>>)) ELSE r
      ELSE Returned(PyList(<<>>))

parse_tags(tags_val, emptyRaises) ==
  LET na == IsNaTruth(tags_val, emptyRaises)
  IN  IF na = "raise" THEN Raised("ValueError")
      ELSE IF na = "true" \/ IsStr(tags_val, <<>>) \/ IsStr(tags_val, <<"[", "]">>)
        THEN Returned(PyList(<<>>))
      ELSE IF tags_val.t = "list" THEN Returned(tags_val)
      ELSE IF tags_val.t = "str"
        THEN LET r == json_loads(tags_val.v)
             IN  IF r.raised
                 THEN Returned(PyList(StripNonEmpty(str_split(tags_val.v))))
                 ELSE r
      ELSE Returned(PyList(<<>>))

\* lambda x: len(parse_scores(x)) > 0   (has_scores, applied to each row)
ScoresRowCheck(x, emptyRaises) ==
  LET r == parse_scores(x, emptyRaises)
  IN  IF r.raised THEN r
      ELSE IF ~HasLen(r.val) THEN Raised("TypeError")
      ELSE Returned([t |-> "bool", v |-> <<Len(r.val.v) > 0>>])

\* lambda x: len(parse_tags(x)) > 0   (has_tags, applied to each row)
TagsRowCheck(x, emptyRaises) ==
  LET r == parse_tags(x, emptyRaises)
  IN  IF r.raised THEN r
      ELSE IF ~HasLen(r.val) THEN Raised("TypeError")
      ELSE Returned([t |-> "bool", v |-> <<Len(r.val.v) > 0>>])

\* ------------------------------------------------------------------ state
VARIABLES
  arg,            \* the scores/tags field value handed to a parser
  emptyRaises,    \* the build: bool(empty array) raises (NumPy >= 2.2) or not
  call,           \* which function was applied to arg ("none" before the call)
  res,            \* the outcome of that call
  ss,             \* st.session_state of the session
  cache,          \* st.cache_data entry of load_data_from_s3
  pc,             \* position of the running app.main ("idle": no run)
  data,           \* main's local `data`
  merged_df,      \* main's local `merged_df`
  kpis,           \* main's local `kpis`
  out,            \* what the current (or last) run has rendered, in order
  run,            \* history of the current (or last) run of main
  page,           \* the page of pages/ being run, its inputs and how it ended
  loc,            \* the local variables of that page's main
  reads,          \* the columns of df that page run has read
  cards,          \* the KPI cards that page run has shown (label -> value)
  bins            \* the last call of safe_hist_bins: arguments and outcome

parseVars == <<arg, emptyRaises, call, res>>
appVars == <<ss, cache, pc, data, merged_df, kpis, out, run>>
pageVars == <<page, loc, reads, cards, bins>>
vars ==
  <<arg, emptyRaises, call, res, ss, cache, pc, data, merged_df, kpis, out, run,
    page, loc, reads, cards, bins>>

\* ----------------------------------------------------- parser inputs
SmallChars == {"a", "5", ",", " ", "[", "]", "{", "}", "\""}
SeqsUpTo(S, n) == UNION {[1..k -> S] : k \in 0..n}

S_abc == <<"a", ",", "b", ",", "c">>
S_name_x == <<"[", "{", "\"", "n", "a", "m", "e", "\"", ":", "\"", "x", "\"", "}", "]">>
S_null == <<"n", "u", "l", "l">>
S_spaced == <<" ", "a", " ", ",", " ", ",", "b", " ">>
S_two_strs == <<"[", "\"", "a", "\"", ",", " ", "\"", "b", "\"", "]">>
S_obj == <<"{", "\"", "a", "\"", ":", "5", "}">>
S_neg == <<"-", "1", "0">>
SampleStrings == {S_abc, S_name_x, S_null, S_spaced, S_two_strs, S_obj, S_neg}

D_name_x == PyDict(<< <<PyStr(<<"n", "a", "m", "e">>), PyStr(<<"x">>)>> >>)
\* elements of an actual list (no nested list: a score or tag is a dict or a scalar)
ListElems == {D_name_x, PyStr(<<"a">>), PyInt(5), PyNone}

StrInputs == {PyStr(s) : s \in SeqsUpTo(SmallChars, MaxLen) \cup SampleStrings}
ListInputs == {PyList(l) : l \in SeqsUpTo(ListElems, MaxList)}
OtherInputs == {PyNone, PyNaN, PyInt(5), PyFloat(5, -1), PyDict(<<>>)}
Inputs == StrInputs \cup ListInputs \cup OtherInputs

\* ------------------------------------------------------------ data values
\* The mapping load_data_from_s3 returns: ver names the bucket content it was
\* read from, q is the row count of its questions table (-1: no such table).
\* The empty mapping {} (no files found) is EmptyData.
EmptyData == [ver |-> 0, q |-> -1]
DataSets == [ver : 1..MaxVer, q : -1..MaxRows]
\* a table: the content it was built from and its row count
NoTable == [ver |-> 0, rows |-> 0]
NoKpis == [ver |-> 0, total_questions |-> 0]

\* DataFrame.empty
IsEmptyTable(df) == df.rows = 0

\* utils.data_loader.merge_data_for_dashboard: one row per question; MergeError
\* when the questions table is absent
merge_data_for_dashboard(d) ==
  IF d.q < 0 THEN Raised("MergeError")
  ELSE [raised |-> FALSE, val |-> [ver |-> d.ver, rows |-> d.q], exc |-> "none"]

\* utils.data_loader.calculate_kpis: a pure function of the merged table
calculate_kpis(df, d) == [ver |-> df.ver, total_questions |-> df.rows]

\* utils.data_loader.load_data_from_s3 under st.cache_data: the cached value
\* when there is one, else a fetch that raises, finds no files or returns data
LoadOutcomes ==
  IF cache.hit
  THEN {[raised |-> FALSE, val |-> cache.val]}
  ELSE {[raised |-> TRUE, val |-> EmptyData]}
       \cup {[raised |-> FALSE, val |-> d] : d \in DataSets \cup {EmptyData}}

\* st.cache_data stores what a call returned; an exception stores nothing
CacheAfter(o) == IF o.raised THEN cache ELSE [hit |-> TRUE, val |-> o.val]

\* -------------------------------------------------------- session state
DataKeys == {"merged_df", "raw_data", "kpis"}
\* (a field whose key is absent holds a placeholder)
NoSession ==
  [keys |-> {}, theme |-> "none", data_loaded |-> FALSE,
   merged_df |-> NoTable, raw_data |-> EmptyData, kpis |-> NoKpis]

\* mutant: the theme is set to light by every run
InitTheme_Always(s) == [s EXCEPT !.keys = @ \cup {"theme"}, !.theme = "light"]
\* if 'theme' not in st.session_state: st.session_state.theme = 'light'
InitTheme(s) ==
  IF "theme" \in s.keys THEN s
  ELSE [s EXCEPT !.keys = @ \cup {"theme"}, !.theme = "light"]

\* the part of the session state the data keys hold
DataPart(s) ==
  [keys |-> s.keys \cap DataKeys, merged_df |-> s.merged_df,
   raw_data |-> s.raw_data, kpis |-> s.kpis]

NoRun ==
  [trigger |-> "view", loads |-> 0, failed |-> 0, empty |-> 0, first |-> "none",
   last |-> "none",
   merges |-> 0,
   kpicalls |-> 0, writes |-> 0, got_data |-> FALSE, merged_ok |-> FALSE,
   kpis_ok |-> FALSE, end |-> "none", ss0 |-> DataPart(NoSession)]

\* ================================================== pages/: tables
MaxTblRows == 3      \* rows of a merged table shown by the Cost page
MaxFbRows == 2       \* rows of a merged table shown by the Feedback page

\* a missing value of a numeric column (NaN); the values present are >= 0
NULL == -1
notna(x) == x # NULL
\* a cost in $0.001, a latency in seconds
CellVals == {NULL, 0, 1, 2}

\* A table is its optional columns and its rows (a row maps each column to a
\* value); the columns every merged table has (trace id, input) are implicit.
Frame(cols, rows) == [cols |-> cols, rows |-> rows]
NoFrame == Frame({}, <<>>)
len(t) == Len(t.rows)
\* DataFrame.empty
empty(t) == len(t) = 0
\* df[c] as the sequence of its values
Column(t, c) == [i \in 1..len(t) |-> t.rows[i][c]]

CostCols == {"total_cost", "latency", "timestamp"}
RowsOver(cols) ==
  {r \in [cols -> CellVals] : "timestamp" \in cols => r["timestamp"] = 1}

\* A cell of the timestamp column. A datetime is the number of its day in a
\* year that starts on a Sunday; NULL is NaT or None; the ISO string of day d
\* is StrTs(d); BadTs is a string that is no date.
BadTs == -2
TsDays == {1, 9}
StrTs(d) == 100 + d
IsStrTs(x) == x = BadTs \/ x >= StrTs(0)
\* the timestamp column holds datetimes (with NaT) or strings (with None)
TsDom(dtype) ==
  IF dtype = "datetime" THEN {NULL} \cup TsDays
  ELSE {NULL, BadTs} \cup {StrTs(d) : d \in TsDays}
\* rows with a cost, a latency and a timestamp of that dtype
TsRowsOver(dtype) ==
  {r \in [CostCols -> CellVals \cup TsDom(dtype)] :
     /\ r["total_cost"] \in CellVals \ {NULL}
     /\ r["latency"] = 1
     /\ r["timestamp"] \in TsDom(dtype)}

\* pd.to_datetime(x, format='ISO8601', errors='coerce'): NaT for a missing
\* and for an unparseable value
to_datetime(x) ==
  IF x = NULL \/ x = BadTs THEN NULL
  ELSE IF IsStrTs(x) THEN x - StrTs(0) ELSE x
\* .dt.strftime('%Y-W%U'): the week of the year, Sunday first; NaN for NaT
strftime_W(d) == IF d = NULL THEN NULL ELSE (d - 1) \div 7 + 1

\* ------------------------------------------------ series of numbers
RECURSIVE SumSeq(_)
SumSeq(xs) == IF xs = <<>> THEN 0 ELSE Head(xs) + SumSeq(Tail(xs))

\* s[s.notna()], s[s > 0]
NotNa(xs) == SelectSeq(xs, LAMBDA x : notna(x))
Positive(xs) == SelectSeq(xs, LAMBDA x : notna(x) /\ x > 0)
\* Series.notna().any()
AnyNotNa(xs) == \E i \in 1..Len(xs) : notna(xs[i])

RECURSIVE Insert(_, _)
Insert(x, xs) ==
  IF xs = <<>> THEN <<x>>
  ELSE IF x <= Head(xs) THEN <<x>> \o xs
  ELSE <<Head(xs)>> \o Insert(x, Tail(xs))
RECURSIVE Sorted(_)
Sorted(xs) == IF xs = <<>> THEN <<>> ELSE Insert(Head(xs), Sorted(Tail(xs)))

\* A number a page computes: the fraction n/d; d = 0 is NaN (the mean, the
\* median or a quantile of no values)
Q(n, d) == [n |-> n, d |-> d]
isna(q) == q.d = 0
\* q > 0 (False for NaN)
IsPos(q) == q.d > 0 /\ q.n > 0
LeQ(p, q) == p.n * q.d <= q.n * p.d

\* Series.sum(): the missing values are skipped
sum(xs) == Q(SumSeq(NotNa(xs)), 1)
\* Series.mean(): the missing values are skipped, NaN when none is left
mean(xs) == Q(SumSeq(NotNa(xs)), Len(NotNa(xs)))
\* Series.min(), Series.max()
min(xs) ==
  LET v == NotNa(xs)
  IN  IF v = <<>> THEN Q(0, 0) ELSE Q(Sorted(v)[1], 1)
max(xs) ==
  LET v == NotNa(xs)
  IN  IF v = <<>> THEN Q(0, 0) ELSE Q(Sorted(v)[Len(v)], 1)
\* mutant: the interpolation runs over the values in row order
quantile_NoSort(xs, k) ==
  LET v == NotNa(xs)
      n == Len(v)
      lo == (k * (n - 1)) \div 100
      hi == IF lo + 1 < n THEN lo + 1 ELSE lo
      part == k * (n - 1) - 100 * lo
  IN  IF n = 0 THEN Q(0, 0)
      ELSE Q(100 * v[lo + 1] + part * (v[hi + 1] - v[lo + 1]), 100)
\* Series.quantile(k/100), linear interpolation between the two closest ranks:
\* position k(n-1)/100 in the sorted values
quantile(xs, k) ==
  LET v == Sorted(NotNa(xs))
      n == Len(v)
      lo == (k * (n - 1)) \div 100
      hi == IF lo + 1 < n THEN lo + 1 ELSE lo
      part == k * (n - 1) - 100 * lo
  IN  IF n = 0 THEN Q(0, 0)
      ELSE Q(100 * v[lo + 1] + part * (v[hi + 1] - v[lo + 1]), 100)
\* Series.median(): the middle value, or the mean of the two middle values
median(xs) ==
  LET v == Sorted(NotNa(xs))
      n == Len(v)
  IN  IF n = 0 THEN Q(0, 0)
      ELSE IF n % 2 = 1 THEN Q(v[(n + 1) \div 2], 1)
      ELSE Q(v[n \div 2] + v[n \div 2 + 1], 2)

\* What a card shows: "N/A", "nan", or a number in units of its last digit
NA == [kind |-> "N/A", n |-> 0]
Num(n) == [kind |-> "num", n |-> n]
\* f"{q:.<digits>f}" with `unit` = units of the last digit per unit of q
Fixed(q, unit) ==
  IF isna(q) THEN [kind |-> "nan", n |-> 0]
  ELSE Num((2 * q.n * unit + q.d) \div (2 * q.d))

\* a page of pages/: no page is running
NoPage == [name |-> "none", search |-> <<>>, end |-> "none", exc |-> "none"]
\* a name bound to a table: the object it names (a table stored in the session
\* state, or an object of this page run) and that object's content
Ref(obj, t) == [obj |-> obj, t |-> t]
NoLocals ==
  [df |-> Ref("local", NoFrame), has_cost |-> FALSE, has_latency |-> FALSE,
   lat_df |-> NoFrame, gf_df |-> Ref("local", NoFrame),
   has_scores |-> FALSE, has_tags |-> FALSE, has_sessions |-> FALSE,
   has_users |-> FALSE, has_general_feedback |-> FALSE,
   weekly_cost |-> <<>>, weekly_corr |-> <<>>, score_rows |-> <<>>,
   divisors |-> {}]
NoBins == [called |-> FALSE]

\* ------------------------------------------------- the parsers, applied
ParseInit ==
  /\ arg \in Inputs
  /\ emptyRaises \in BOOLEAN
  /\ call = "none"
  /\ res = Returned(PyNone)
  /\ ss = NoSession
  /\ cache = [hit |-> FALSE, val |-> EmptyData]
  /\ pc = "idle"
  /\ data = EmptyData
  /\ merged_df = NoTable
  /\ kpis = NoKpis
  /\ out = <<>>
  /\ run = NoRun
  /\ page = NoPage
  /\ loc = NoLocals
  /\ reads = {}
  /\ cards = <<>>
  /\ bins = NoBins

CallParseScores ==
  /\ call = "none"
  /\ call' = "parse_scores"
  /\ res' = parse_scores(arg, emptyRaises)
  /\ UNCHANGED <<arg, emptyRaises>>
  /\ UNCHANGED <<appVars, pageVars>>

CallParseTags ==
  /\ call = "none"
  /\ call' = "parse_tags"
  /\ res' = parse_tags(arg, emptyRaises)
  /\ UNCHANGED <<arg, emptyRaises>>
  /\ UNCHANGED <<appVars, pageVars>>

\* one row of df['scores'].apply(lambda x: len(parse_scores(x)) > 0)
RowHasScores ==
  /\ call = "none"
  /\ call' = "has_scores"
  /\ res' = ScoresRowCheck(arg, emptyRaises)
  /\ UNCHANGED <<arg, emptyRaises>>
  /\ UNCHANGED <<appVars, pageVars>>

\* one row of df['tags'].apply(lambda x: len(parse_tags(x)) > 0)
RowHasTags ==
  /\ call = "none"
  /\ call' = "has_tags"
  /\ res' = TagsRowCheck(arg, emptyRaises)
  /\ UNCHANGED <<arg, emptyRaises>>
  /\ UNCHANGED <<appVars, pageVars>>

ParseNext == CallParseScores \/ CallParseTags \/ RowHasScores \/ RowHasTags

ParseSpec == ParseInit /\ [][ParseNext]_vars

\* ------------------------------------------------------- app.py: main
Triggers == {"view", "refresh", "theme", "report"}

\* A run of the home page starts: a page view, or a press of a button the last
\* run rendered (the buttons are rendered by a run that reaches the sidebar).
StartRun(trigger) ==
  /\ pc = "idle"
  /\ trigger # "view" => run.end = "completed"
  /\ pc' = "configure"
  /\ run' = [NoRun EXCEPT !.trigger = trigger, !.ss0 = DataPart(ss)]
  /\ out' = <<>>
  /\ data' = EmptyData
  /\ merged_df' = NoTable
  /\ kpis' = NoKpis
  /\ UNCHANGED <<ss, cache>>
  /\ UNCHANGED <<parseVars, pageVars>>

\* st.rerun(): the script starts over at once
Rerun ==
  /\ pc = "rerun"
  /\ pc' = "configure"
  /\ run' = [NoRun EXCEPT !.ss0 = DataPart(ss)]
  /\ out' = <<>>
  /\ data' = EmptyData
  /\ merged_df' = NoTable
  /\ kpis' = NoKpis
  /\ UNCHANGED <<ss, cache>>
  /\ UNCHANGED <<parseVars, pageVars>>

\* configure_page and the header
ConfigurePage ==
  /\ pc = "configure"
  /\ ss' = [InitTheme(ss) EXCEPT !.keys = @ \cup {"data_loaded"}]
  /\ out' = Append(out, "header")
  /\ pc' = "load1"
  /\ UNCHANGED <<cache, data, merged_df, kpis, run>>
  /\ UNCHANGED <<parseVars, pageVars>>

\* line 65 reads `st.stop`: the attribute is looked up and not called
StopAfterLoadError == FALSE

OutcomeKind(o) ==
  IF o.raised THEN "raised" ELSE IF o.val = EmptyData THEN "empty" ELSE "data"

\* the history of the run after a call of load_data_from_s3 with outcome o
AfterLoad(r, o) ==
  [r EXCEPT !.loads = @ + 1,
            !.first = IF r.loads = 0 THEN OutcomeKind(o) ELSE @,
            !.failed = IF o.raised THEN @ + 1 ELSE @,
            !.empty = IF ~o.raised /\ o.val = EmptyData THEN @ + 1 ELSE @,
            !.last = OutcomeKind(o),
            !.got_data = ~o.raised /\ o.val # EmptyData]

\* try: data = load_data_from_s3() / except: error, troubleshooting, st.stop
LoadFirst ==
  /\ pc = "load1"
  /\ \E o \in LoadOutcomes :
       /\ cache' = CacheAfter(o)
       /\ IF o.raised
          THEN /\ out' = out \o <<"error_s3", "troubleshooting">>
               /\ data' = data
               /\ IF StopAfterLoadError
                  THEN pc' = "idle" /\ run' = [AfterLoad(run, o) EXCEPT !.end = "stop"]
                  ELSE pc' = "load2" /\ run' = AfterLoad(run, o)
          ELSE /\ out' = out
               /\ data' = o.val
               /\ pc' = "load2"
               /\ run' = AfterLoad(run, o)
  /\ UNCHANGED <<ss, merged_df, kpis>>
  /\ UNCHANGED <<parseVars, pageVars>>

\* # Load data: data = load_data_from_s3()
\* (no handler of its own: an exception reaches `except Exception` of line 174)
LoadSecond ==
  /\ pc = "load2"
  /\ \E o \in LoadOutcomes :
       /\ cache' = CacheAfter(o)
       /\ run' = AfterLoad(run, o)
       /\ IF o.raised
          THEN data' = data /\ pc' = "except"
          ELSE data' = o.val /\ pc' = "check_data"
  /\ UNCHANGED <<ss, merged_df, kpis, out>>
  /\ UNCHANGED <<parseVars, pageVars>>

\* mutant: the message is shown but st.stop() is not called
CheckData_NoStop ==
  /\ pc = "check_data"
  /\ out' = IF data = EmptyData THEN out \o <<"error_no_data", "tip_no_data">> ELSE out
  /\ pc' = "merge"
  /\ UNCHANGED <<ss, cache, data, merged_df, kpis, run>>
  /\ UNCHANGED <<parseVars, pageVars>>

\* if not data: error, tip, st.stop()
CheckData ==
  /\ pc = "check_data"
  /\ IF data = EmptyData
     THEN /\ out' = out \o <<"error_no_data", "tip_no_data">>
          /\ run' = [run EXCEPT !.end = "stop"]
          /\ pc' = "idle"
     ELSE /\ out' = out
          /\ run' = run
          /\ pc' = "merge"
  /\ UNCHANGED <<ss, cache, data, merged_df, kpis>>
  /\ UNCHANGED <<parseVars, pageVars>>

\* merged_df = merge_data_for_dashboard(data)
Merge ==
  /\ pc = "merge"
  /\ LET r == merge_data_for_dashboard(data)
     IN  IF r.raised
         THEN /\ merged_df' = merged_df
              /\ run' = [run EXCEPT !.merges = @ + 1]
              /\ pc' = "except"
         ELSE /\ merged_df' = r.val
              /\ run' = [run EXCEPT !.merges = @ + 1,
                                    !.merged_ok = ~IsEmptyTable(r.val)]
              /\ pc' = "check_merged"
  /\ UNCHANGED <<ss, cache, data, kpis, out>>
  /\ UNCHANGED <<parseVars, pageVars>>

\* mutant: the warning is shown but st.stop() is not called
CheckMerged_NoStop ==
  /\ pc = "check_merged"
  /\ out' = IF IsEmptyTable(merged_df) THEN Append(out, "warning_no_questions") ELSE out
  /\ pc' = "kpis"
  /\ UNCHANGED <<ss, cache, data, merged_df, kpis, run>>
  /\ UNCHANGED <<parseVars, pageVars>>

\* if merged_df.empty: warning, st.stop()
CheckMerged ==
  /\ pc = "check_merged"
  /\ IF IsEmptyTable(merged_df)
     THEN /\ out' = Append(out, "warning_no_questions")
          /\ run' = [run EXCEPT !.end = "stop"]
          /\ pc' = "idle"
     ELSE /\ out' = out
          /\ run' = run
          /\ pc' = "kpis"
  /\ UNCHANGED <<ss, cache, data, merged_df, kpis>>
  /\ UNCHANGED <<parseVars, pageVars>>

\* kpis = calculate_kpis(merged_df, data)
CalcKpis ==
  /\ pc = "kpis"
  /\ kpis' = calculate_kpis(merged_df, data)
  /\ run' = [run EXCEPT !.kpicalls = @ + 1, !.kpis_ok = TRUE]
  /\ pc' = "store"
  /\ UNCHANGED <<ss, cache, data, merged_df, out>>
  /\ UNCHANGED <<parseVars, pageVars>>

\* mutant: raw_data is written only when the session has none yet
Store_KeepRaw ==
  /\ pc = "store"
  /\ ss' = [ss EXCEPT !.keys = @ \cup DataKeys,
                      !.merged_df = merged_df,
                      !.raw_data = IF "raw_data" \in ss.keys THEN @ ELSE data,
                      !.kpis = kpis]
  /\ run' = [run EXCEPT !.writes = @ + 1]
  /\ pc' = "overview"
  /\ UNCHANGED <<cache, data, merged_df, kpis, out>>
  /\ UNCHANGED <<parseVars, pageVars>>

\* st.session_state['merged_df'], ['raw_data'], ['kpis'] = ...
\* (three assignments in a row, no st call between them where a run can stop)
Store ==
  /\ pc = "store"
  /\ ss' = [ss EXCEPT !.keys = @ \cup DataKeys,
                      !.merged_df = merged_df,
                      !.raw_data = data,
                      !.kpis = kpis]
  /\ run' = [run EXCEPT !.writes = @ + 1]
  /\ pc' = "overview"
  /\ UNCHANGED <<cache, data, merged_df, kpis, out>>
  /\ UNCHANGED <<parseVars, pageVars>>

\* success message, quick overview, navigation info
Overview ==
  /\ pc = "overview"
  /\ out' = out \o <<"success", "kpi_cards", "navigation">>
  /\ pc' = "sidebar"
  /\ UNCHANGED <<ss, cache, data, merged_df, kpis, run>>
  /\ UNCHANGED <<parseVars, pageVars>>

OtherTheme(th) == IF th = "light" THEN "dark" ELSE "light"

\* sidebar: the refresh button, then the theme toggle
Sidebar ==
  /\ pc = "sidebar"
  /\ IF run.trigger = "refresh"
     THEN /\ cache' = [hit |-> FALSE, val |-> EmptyData]
          /\ ss' = [ss EXCEPT !.keys = @ \cup {"data_loaded"}, !.data_loaded = FALSE]
          /\ run' = run
          /\ pc' = "footer"
     ELSE IF run.trigger = "theme"
     THEN /\ cache' = cache
          /\ ss' = [ss EXCEPT !.keys = @ \cup {"theme"}, !.theme = OtherTheme(ss.theme)]
          /\ run' = [run EXCEPT !.end = "rerun"]
          /\ pc' = "rerun"
     ELSE /\ cache' = cache
          /\ ss' = ss
          /\ run' = run
          /\ pc' = "footer"
  /\ UNCHANGED <<data, merged_df, kpis, out>>
  /\ UNCHANGED <<parseVars, pageVars>>

\* developer section (error report) and footer
Footer ==
  /\ pc = "footer"
  /\ out' = out \o (IF run.trigger = "report" THEN <<"error_report">> ELSE <<>>)
                \o <<"footer">>
  /\ run' = [run EXCEPT !.end = "completed"]
  /\ pc' = "idle"
  /\ UNCHANGED <<ss, cache, data, merged_df, kpis>>
  /\ UNCHANGED <<parseVars, pageVars>>

\* except Exception as e: application error and its hints
Except ==
  /\ pc = "except"
  /\ out' = out \o <<"application_error", "error_hints">>
  /\ run' = [run EXCEPT !.end = "error"]
  /\ pc' = "idle"
  /\ UNCHANGED <<ss, cache, data, merged_df, kpis>>
  /\ UNCHANGED <<parseVars, pageVars>>

\* the time-to-live of the cached load elapses
CacheExpire ==
  /\ cache.hit
  /\ cache' = [hit |-> FALSE, val |-> EmptyData]
  /\ UNCHANGED <<ss, pc, data, merged_df, kpis, out, run>>
  /\ UNCHANGED <<parseVars, pageVars>>

PageNames == {"cost", "feedback"}

\* utils.data_loader.ensure_data_loaded, as the pages call it first: the pages
\* only read the shared state; the data is there when the three keys are
DataLoaded(s) == DataKeys \subseteq s.keys

\* A view of a page of pages/, seen from the session: the theme is initialised
\* when absent (module level), ensure_data_loaded halts the page or lets main
\* render from copies of the stored tables.
ViewPage(p) ==
  /\ pc = "idle"
  /\ ss' = InitTheme(ss)
  /\ out' = IF DataLoaded(ss) THEN <<p, "page_body">> ELSE <<p>>
  /\ run' = [NoRun EXCEPT !.trigger = "page", !.end = "page", !.ss0 = DataPart(ss)]
  /\ UNCHANGED <<cache, pc, data, merged_df, kpis>>
  /\ UNCHANGED <<parseVars, pageVars>>

Init ==
  /\ ss = NoSession
  /\ cache = [hit |-> FALSE, val |-> EmptyData]
  /\ pc = "idle"
  /\ data = EmptyData
  /\ merged_df = NoTable
  /\ kpis = NoKpis
  /\ out = <<>>
  /\ run = NoRun
  /\ arg = PyNone
  /\ emptyRaises = FALSE
  /\ call = "none"
  /\ res = Returned(PyNone)
  /\ page = NoPage
  /\ loc = NoLocals
  /\ reads = {}
  /\ cards = <<>>
  /\ bins = NoBins

Next ==
  \/ \E trigger \in Triggers : StartRun(trigger)
  \/ Rerun
  \/ ConfigurePage
  \/ LoadFirst
  \/ LoadSecond
  \/ CheckData
  \/ Merge
  \/ CheckMerged
  \/ CalcKpis
  \/ Store
  \/ Overview
  \/ Sidebar
  \/ Footer
  \/ Except
  \/ CacheExpire
  \/ \E p \in PageNames : ViewPage(p)

Spec == Init /\ [][Next]_vars

\* ------------------------------------------------- feedback tables
\* the columns of the merged table the Feedback page looks at, and the values
\* of a row in each
FbCols == {"scores", "tags", "session_id", "user_id"}
FbDom(c) ==
  CASE c = "scores" -> {PyNone, PyList(<<D_name_x>>), PyStr(<<"[", "5", "]">>)}
    [] c = "tags" -> {PyNone, PyStr(<<"a">>)}
    [] c = "session_id" -> {PyNone, PyStr(<<"5">>)}
    [] c = "user_id" -> {PyNone, PyStr(<<"x">>)}
FbRowsOver(cols) ==
  {r \in [cols -> UNION {FbDom(c) : c \in FbCols}] : \A c \in cols : r[c] \in FbDom(c)}

\* the general_feedback table of raw_data: every cell is a string
GfColSets == {{"id"}, {"feedback"}, {"feedback", "timestamp"}, {"id", "feedback", "timestamp"}}
GfCells == {<<"a">>, <<"B">>}
GfTables ==
  UNION {{Frame(cols, rows) : rows \in SeqsUpTo([cols -> GfCells], 2)} :
           cols \in GfColSets}
\* raw_data without a general_feedback table
NoRaw == <<>>
RawDatas == {NoRaw} \cup {("general_feedback" :> t) : t \in GfTables}

\* str.lower() of a character
Lower(c) == IF c = "B" THEN "b" ELSE c
lower(s) == [i \in 1..Len(s) |-> Lower(s[i])]
\* needle in hay
Contains(hay, needle) ==
  \E i \in 0..(Len(hay) - Len(needle)) :
     \A j \in 1..Len(needle) : hay[i + j] = needle[j]
\* str(row.values): "['a' 'B']", the cells in column order
GfOrder == <<"id", "feedback", "timestamp">>
RECURSIVE CellsText(_, _)
CellsText(r, i) ==
  IF i > Len(GfOrder) THEN <<>>
  ELSE IF GfOrder[i] \notin DOMAIN r THEN CellsText(r, i + 1)
  ELSE LET rest == CellsText(r, i + 1)
       IN  <<"'">> \o r[GfOrder[i]] \o <<"'">>
           \o (IF rest = <<>> THEN <<>> ELSE <<" ">> \o rest)
RowText(r) == <<"[">> \o CellsText(r, 1) \o <<"]">>
SearchTexts == {<<>>, <<"a">>, <<"b">>, <<"x">>, <<"'", " ">>}

\* --------------------------------------------------- safe_hist_bins
DefaultBins == 10
MaxBins == 30
MaxSeries == 2       \* longest series passed to safe_hist_bins directly

PyInf(sign) == [t |-> "inf", v |-> <<sign>>]
PySeries(l) == [t |-> "series", v |-> l]

\* a float: finite n/d (d > 0), NaN (d = 0), +infinity or -infinity (inf = 1, -1)
Fin(n, d) == [inf |-> 0, n |-> n, d |-> d]
NaNum == [inf |-> 0, n |-> 0, d |-> 0]
Inf(sign) == [inf |-> sign, n |-> 0, d |-> 1]
IsNaNum(x) == x.inf = 0 /\ x.d = 0
LeNum(x, y) ==
  IF x.inf = 0 /\ y.inf = 0 THEN x.n * y.d <= y.n * x.d ELSE x.inf <= y.inf

RECURSIVE Pow10(_)
Pow10(e) == IF e <= 0 THEN 1 ELSE 10 * Pow10(e - 1)

\* pd.to_numeric(..., errors='coerce') of one element: numbers and strings of
\* digits convert, anything else becomes NaN
to_numeric(x) ==
  CASE x.t = "int" -> Fin(x.v[1], 1)
    [] x.t = "float" ->
         IF x.v[2] >= 0 THEN Fin(x.v[1] * Pow10(x.v[2]), 1)
         ELSE Fin(x.v[1], Pow10(0 - x.v[2]))
    [] x.t = "inf" -> Inf(x.v[1])
    [] x.t = "str" ->
         IF x.v # <<>> /\ DigitsEnd(x.v, 1) = Len(x.v) + 1
         THEN Fin(IntOf(x.v, 1, Len(x.v) + 1), 1)
         ELSE NaNum
    [] OTHER -> NaNum

\* Series.max() of values without NaN
RECURSIVE MaxNum(_)
MaxNum(xs) ==
  IF Len(xs) = 1 THEN xs[1]
  ELSE LET m == MaxNum(Tail(xs))
       IN  IF LeNum(m, Head(xs)) THEN Head(xs) ELSE m

\* int(x) of a float: truncation towards zero; OverflowError for an infinity,
\* ValueError for NaN
int(x) ==
  IF x.inf # 0 THEN Raised("OverflowError")
  ELSE IF x.d = 0 THEN Raised("ValueError")
  ELSE Returned(PyInt(IF x.n >= 0 THEN x.n \div x.d ELSE 0 - ((0 - x.n) \div x.d)))

\* except (TypeError, ValueError)
Caught(e) == e \in {"TypeError", "ValueError"}

safe_hist_bins(series, default, max_bins) ==
  IF series.t = "none" THEN Returned(PyInt(default))
  ELSE IF Len(series.v) = 0 THEN Returned(PyInt(default))
  ELSE
    LET converted == [i \in 1..Len(series.v) |-> to_numeric(series.v[i])]
        numeric == SelectSeq(converted, LAMBDA x : ~IsNaNum(x))
    IN  IF numeric = <<>> THEN Returned(PyInt(default))
        ELSE
          LET max_value == MaxNum(numeric)
              bins_ == int(max_value)
          IN  IF IsNaNum(max_value) THEN Returned(PyInt(default))
              ELSE IF bins_.raised
                   THEN IF Caught(bins_.exc) THEN Returned(PyInt(default)) ELSE bins_
              ELSE IF bins_.val.v[1] < 1 THEN Returned(PyInt(1))
              ELSE Returned(PyInt(IF max_bins <= bins_.val.v[1]
                                  THEN max_bins ELSE bins_.val.v[1]))

\* the elements of the series safe_hist_bins is applied to
BinElems ==
  {PyInt(-1), PyInt(0), PyInt(1), PyInt(2), PyInt(31), PyFloat(25, -1),
   PyFloat(5, -1), PyNaN, PyNone, PyStr(<<"x">>), PyStr(<<"5">>), PyInf(1), PyInf(-1)}
BinSeries == {PyNone} \cup {PySeries(l) : l \in SeqsUpTo(BinElems, MaxSeries)}
BinDefaults == {1, DefaultBins}
BinMaxes == {1, 2, MaxBins}

\* ====================================================== pages/: runs
\* A session the home page has loaded: the merged table t, the raw tables rd
\* (a mapping from dataset name to table) and the KPIs.
PageSession(t, rd) ==
  [keys |-> DataKeys \cup {"theme", "data_loaded"}, theme |-> "light",
   data_loaded |-> FALSE, merged_df |-> t, raw_data |-> rd,
   kpis |-> [ver |-> 0, total_questions |-> len(t)]]

\* DataFrame.copy(): a new object with the same columns and rows
copy_NoCopy(r) == r
copy(r) == Ref("local", r.t)

\* st.stop(), the end of main, an exception leaving main
EndPage(how, exc) == [page EXCEPT !.end = how, !.exc = exc]

\* the script of a page starts: theme initialisation, title
OpenPage(p) ==
  /\ pc = "idle"
  /\ page' = [name |-> p, search |-> <<>>, end |-> "none", exc |-> "none"]
  /\ ss' = InitTheme(ss)
  /\ out' = <<"title">>
  /\ loc' = NoLocals
  /\ reads' = {}
  /\ cards' = <<>>
  /\ pc' = "ensure"
  /\ UNCHANGED <<cache, data, merged_df, kpis, run, bins>>
  /\ UNCHANGED parseVars

\* ensure_data_loaded(): the page goes on when the session holds the data
EnsureLoaded ==
  /\ pc = "ensure"
  /\ IF DataLoaded(ss)
     THEN pc' = "copy" /\ page' = page
     ELSE pc' = "idle" /\ page' = EndPage("stopped", "none")
  /\ UNCHANGED <<ss, cache, data, merged_df, kpis, out, run, loc, reads, cards, bins>>
  /\ UNCHANGED parseVars

\* df = st.session_state['merged_df'].copy()
CopyDf ==
  /\ pc = "copy"
  /\ loc' = [loc EXCEPT !.df = copy(Ref("merged_df", ss.merged_df))]
  /\ pc' = "check_empty"
  /\ UNCHANGED <<ss, cache, data, merged_df, kpis, out, run, page, reads, cards, bins>>
  /\ UNCHANGED parseVars

\* if df.empty: warning, st.stop()
CheckEmpty ==
  /\ pc = "check_empty"
  /\ IF empty(loc.df.t)
     THEN /\ out' = Append(out, "warning_no_data")
          /\ page' = EndPage("stopped", "none")
          /\ pc' = "idle"
     ELSE /\ out' = out
          /\ page' = page
          /\ pc' = IF page.name = "cost" THEN "has_cost" ELSE "has_fb"
  /\ UNCHANGED <<ss, cache, data, merged_df, kpis, run, loc, reads, cards, bins>>
  /\ UNCHANGED parseVars

\* mutant: the column is there, whatever it holds
HasData_ColumnOnly(t, c) == c \in t.cols
\* 'c' in df.columns and df['c'].notna().any()
HasData(t, c) == c \in t.cols /\ AnyNotNa(Column(t, c))

\* has_cost, has_latency; neither: the message and st.stop()
CostHas ==
  /\ pc = "has_cost"
  /\ LET t == loc.df.t
         hc == HasData(t, "total_cost")
         hl == HasData(t, "latency")
     IN  /\ loc' = [loc EXCEPT !.has_cost = hc, !.has_latency = hl]
         /\ reads' = reads \cup ({"total_cost", "latency"} \cap t.cols)
         /\ IF ~hc /\ ~hl
            THEN /\ out' = Append(out, "info_no_cost_or_latency")
                 /\ page' = EndPage("stopped", "none")
                 /\ pc' = "idle"
            ELSE /\ out' = out
                 /\ page' = page
                 /\ pc' = "cards"
  /\ UNCHANGED <<ss, cache, data, merged_df, kpis, run, cards, bins>>
  /\ UNCHANGED parseVars

\* mutant: the mean over every row that has a cost
cost_per_q_AllRows(cost) == mean(cost)
\* cost_per_q = df[df['total_cost'] > 0]['total_cost'].mean()
cost_per_q(cost) == mean(Positive(cost))

\* nonzero_lat = df[df['latency'] > 0]['latency']
nonzero_lat(lat) == Positive(lat)
\* <statistic> if len(nonzero_lat) > 0 else 0
OrZero(xs, q) == IF Len(xs) > 0 THEN q ELSE Q(0, 1)
\* mutant: the value is formatted whatever it is
ShowSeconds_Always(q) == Fixed(q, 100)
\* f"{q:.2f}s" if q > 0 else "N/A"
ShowSeconds(q) == IF IsPos(q) THEN Fixed(q, 100) ELSE NA

\* the cards of the cost column: Total Cost, Avg Cost / Question, Traces with
\* Cost and its delta (the share of all rows, in 0.1 %)
CostCardsOf(t) ==
  LET cost == Column(t, "total_cost")
      questions_with_cost == Len(Positive(cost))
  IN  ("Total Cost" :> Fixed(sum(cost), 10))
      @@ ("Avg Cost / Question" :>
            IF ~isna(cost_per_q(cost)) THEN Fixed(cost_per_q(cost), 1000) ELSE NA)
      @@ ("Traces with Cost" :> Num(questions_with_cost))
      @@ ("Traces with Cost (delta)" :> Fixed(Q(100 * questions_with_cost, len(t)), 10))

\* the cards of the latency column: Avg, P95, Median and P99 Latency
LatencyCardsOf(t) ==
  LET nz == nonzero_lat(Column(t, "latency"))
  IN  ("Avg Latency" :> ShowSeconds(OrZero(nz, mean(nz))))
      @@ ("P95 Latency" :> ShowSeconds(OrZero(nz, quantile(nz, 95))))
      @@ ("Median Latency" :> ShowSeconds(OrZero(nz, median(nz))))
      @@ ("P99 Latency" :> ShowSeconds(OrZero(nz, quantile(nz, 99))))

\* a division the page has evaluated: the dividend's name and the divisor
Divided(what, by) == [what |-> what, by |-> by]

\* ## Key Metrics: the two rows of KPI cards
CostCards ==
  /\ pc = "cards"
  /\ out' = Append(out, "key_metrics")
  /\ IF loc.has_cost /\ len(loc.df.t) = 0
     THEN /\ cards' = cards
          /\ reads' = reads
          /\ loc' = [loc EXCEPT !.divisors = @ \cup {Divided("questions_with_cost", 0)}]
          /\ page' = EndPage("raised", "ZeroDivisionError")
          /\ pc' = "idle"
     ELSE /\ cards' = (IF loc.has_cost THEN CostCardsOf(loc.df.t) ELSE <<>>)
                      @@ (IF loc.has_latency THEN LatencyCardsOf(loc.df.t) ELSE <<>>)
          /\ reads' = reads \cup (IF loc.has_cost THEN {"total_cost"} ELSE {})
                            \cup (IF loc.has_latency THEN {"latency"} ELSE {})
          /\ loc' = IF loc.has_cost
                    THEN [loc EXCEPT !.divisors = @ \cup {Divided("questions_with_cost", len(loc.df.t))}]
                    ELSE loc
          /\ page' = page
          /\ pc' = "tab1"
  /\ UNCHANGED <<ss, cache, data, merged_df, kpis, run, bins>>
  /\ UNCHANGED parseVars

\* df[df[c].notna() & (df[c] > 0)]
PositiveRows(t, c) ==
  Frame(t.cols, SelectSeq(t.rows, LAMBDA r : notna(r[c]) /\ r[c] > 0))

\* the 'week' value of a row
WeekOf(r) == strftime_W(to_datetime(r["timestamp"]))
\* t.groupby('week').agg(total_cost=sum, question_count=count), in the order
\* of the weeks: one row per week value; a row whose week is NaN is in no group
RECURSIVE WeekGroups(_, _)
WeekGroups(t, weeks) ==
  IF weeks = {} THEN <<>>
  ELSE LET w == CHOOSE x \in weeks : \A y \in weeks : x <= y
           rows == SelectSeq(t.rows, LAMBDA r : WeekOf(r) = w)
       IN  <<[week |-> w,
              total_cost |-> SumSeq([i \in 1..Len(rows) |-> rows[i]["total_cost"]]),
              question_count |-> Len(rows)]>>
           \o WeekGroups(t, weeks \ {w})
groupby_week(t) == WeekGroups(t, {WeekOf(t.rows[i]) : i \in 1..len(t)} \ {NULL})

\* tab 1, Cost Analysis: the weekly breakdown and the cumulative cost (with a
\* timestamp column), the distribution and the statistics of the positive costs
CostTab1 ==
  /\ pc = "tab1"
  /\ IF ~loc.has_cost
     THEN /\ out' = Append(out, "info_no_cost")
          /\ reads' = reads
     ELSE /\ out' = out
                 \o (IF "timestamp" \in loc.df.t.cols
                     THEN <<"weekly_cost", "cumulative_cost">> ELSE <<>>)
                 \o <<"cost_distribution", "cost_statistics">>
          /\ reads' = reads \cup {"total_cost"} \cup ({"timestamp"} \cap loc.df.t.cols)
  /\ loc' = IF loc.has_cost /\ "timestamp" \in loc.df.t.cols
            THEN [loc EXCEPT !.weekly_cost = groupby_week(PositiveRows(loc.df.t, "total_cost"))]
            ELSE loc
  /\ pc' = "tab2"
  /\ UNCHANGED <<ss, cache, data, merged_df, kpis, run, page, cards, bins>>
  /\ UNCHANGED parseVars

\* the Latency Percentiles metrics: Min, P50 (Median), P90, P95, P99 (f"{q:.3f}s")
PercentileCardsOf(lat) ==
  ("Min" :> Fixed(min(lat), 1000))
  @@ ("P50 (Median)" :> Fixed(median(lat), 1000))
  @@ ("P90" :> Fixed(quantile(lat, 90), 1000))
  @@ ("P95" :> Fixed(quantile(lat, 95), 1000))
  @@ ("P99" :> Fixed(quantile(lat, 99), 1000))

\* tab 2, Latency Analysis: lat_df, the distribution with its percentile lines,
\* the percentile metrics, the trends (with a timestamp column)
CostTab2 ==
  /\ pc = "tab2"
  /\ IF ~loc.has_latency
     THEN /\ out' = Append(out, "info_no_latency")
          /\ loc' = loc
          /\ cards' = cards
          /\ reads' = reads
     ELSE LET lat_df == PositiveRows(loc.df.t, "latency")
          IN  /\ loc' = [loc EXCEPT !.lat_df = lat_df]
              /\ cards' = cards @@ PercentileCardsOf(Column(lat_df, "latency"))
              /\ out' = out \o <<"latency_distribution", "latency_percentiles">>
                            \o (IF "timestamp" \in lat_df.cols
                                THEN <<"latency_trend", "weekly_latency">> ELSE <<>>)
              /\ reads' = reads \cup {"latency"} \cup ({"timestamp"} \cap lat_df.cols)
  /\ pc' = "tab3"
  /\ UNCHANGED <<ss, cache, data, merged_df, kpis, run, page, bins>>
  /\ UNCHANGED parseVars

\* (df['timestamp'].max() - df['timestamp'].min()).days, the outcomes: strings
\* cannot be subtracted; datetimes give the days between the extremes (NaT
\* skipped); a column of NaT gives NaN, a column of None raises
TsSpan(ts) ==
  LET days == {ts[i] : i \in 1..Len(ts)} \ {NULL}
  IN  IF \E i \in 1..Len(ts) : IsStrTs(ts[i]) THEN {Raised("TypeError")}
      ELSE IF days = {} THEN {Returned(PyNaN), Raised("TypeError")}
      ELSE {Returned(PyInt((CHOOSE x \in days : \A y \in days : y <= x)
                           - (CHOOSE x \in days : \A y \in days : x <= y)))}

\* mutant: the days themselves
daily_rate_divisor_NoMax(days) == IF days.t = "int" THEN days.v[1] ELSE 0
\* max(1, days): days when days > 1 (never so for NaN), else 1
daily_rate_divisor(days) == IF days.t = "int" /\ days.v[1] > 1 THEN days.v[1] ELSE 1

\* tab 3, Operational Overview: cost against volume by week (has_cost and a
\* timestamp column); the efficiency insights (has_cost and has_latency),
\* whose monthly estimate reads df['timestamp'] whenever a positive cost exists
CostTab3 ==
  /\ pc = "tab3"
  /\ LET t == loc.df.t
         volume == loc.has_cost /\ "timestamp" \in t.cols
         insights == loc.has_cost /\ loc.has_latency
         estimate == insights /\ Len(Positive(Column(t, "total_cost"))) > 0
         weekly_corr == IF volume THEN groupby_week(PositiveRows(t, "total_cost")) ELSE <<>>
         shown == <<"operational_overview">>
                  \o (IF volume THEN <<"cost_vs_volume">> ELSE <<>>)
                  \o (IF insights THEN <<"efficiency_insights">> ELSE <<>>)
     IN  /\ reads' = reads
                \cup (IF volume \/ insights THEN {"total_cost"} ELSE {})
                \cup (IF insights THEN {"latency"} ELSE {})
                \cup (IF volume \/ estimate THEN {"timestamp"} ELSE {})
         /\ out' = out \o shown
         /\ IF ~estimate
            THEN /\ loc' = [loc EXCEPT !.weekly_corr = weekly_corr]
                 /\ page' = EndPage("completed", "none")
            ELSE IF "timestamp" \notin t.cols
            THEN /\ loc' = [loc EXCEPT !.weekly_corr = weekly_corr]
                 /\ page' = EndPage("raised", "KeyError")
            ELSE \E span \in TsSpan(Column(t, "timestamp")) :
                   IF span.raised
                   THEN /\ loc' = [loc EXCEPT !.weekly_corr = weekly_corr]
                        /\ page' = EndPage("raised", span.exc)
                   ELSE /\ loc' = [loc EXCEPT
                                     !.weekly_corr = weekly_corr,
                                     !.divisors = @ \cup {Divided("daily_rate",
                                                           daily_rate_divisor(span.val))}]
                        /\ page' = EndPage("completed", "none")
  /\ pc' = "idle"
  /\ UNCHANGED <<ss, cache, data, merged_df, kpis, run, cards, bins>>
  /\ UNCHANGED parseVars

\* ------------------------------------- pages/Feedback_and_Satisfaction
\* a merged table of one question without any of the optional columns
OneRow == Frame({}, <<[c \in {} |-> PyNone]>>)

NotNull(x) == x.t \notin {"none", "nan"}
\* df[c].apply(F).any(), given the outcome of F for every row in order: the
\* first exception leaves apply
ApplyAny(results) ==
  LET failed == {i \in 1..Len(results) : results[i].raised}
  IN  IF failed # {}
      THEN results[CHOOSE i \in failed : \A j \in failed : i <= j]
      ELSE Returned([t |-> "bool",
                     v |-> <<\E i \in 1..Len(results) : results[i].val.v[1]>>])

\* Series.nunique(), groupby(c).size() over the rows with a value
Unique(col) == {col[i] : i \in {j \in 1..Len(col) : NotNull(col[j])}}
CountOf(col, x) == Cardinality({i \in 1..Len(col) : col[i] = x})
RECURSIVE GroupSizes(_, _)
GroupSizes(col, keys) ==
  IF keys = {} THEN <<>>
  ELSE LET k == CHOOSE x \in keys : TRUE
       IN  <<PyInt(CountOf(col, k))>> \o GroupSizes(col, keys \ {k})

\* 'scores' in df.columns and df['scores'].apply(lambda x: len(parse_scores(x)) > 0).any()
HasScores(t, er) ==
  IF "scores" \in t.cols
  THEN ApplyAny([i \in 1..len(t) |-> ScoresRowCheck(t.rows[i]["scores"], er)])
  ELSE Returned([t |-> "bool", v |-> <<FALSE>>])
\* 'tags' in df.columns and df['tags'].apply(lambda x: len(parse_tags(x)) > 0).any()
HasTags(t, er) ==
  IF "tags" \in t.cols
  THEN ApplyAny([i \in 1..len(t) |-> TagsRowCheck(t.rows[i]["tags"], er)])
  ELSE Returned([t |-> "bool", v |-> <<FALSE>>])
\* 'c' in df.columns and df['c'].notna().any(), for a column of identifiers
HasIds(t, c) == c \in t.cols /\ \E i \in 1..len(t) : NotNull(t.rows[i][c])
\* 'general_feedback' in raw_data and not raw_data['general_feedback'].empty
HasGeneralFeedback(raw_data) ==
  "general_feedback" \in DOMAIN raw_data /\ ~empty(raw_data["general_feedback"])

\* has_scores, has_tags, has_sessions, has_users, has_general_feedback; the
\* message and st.stop() when none of scores, tags, sessions, general feedback
FbHas ==
  /\ pc = "has_fb"
  /\ reads' = reads \cup (FbCols \cap loc.df.t.cols)
  /\ \E hs \in {HasScores(loc.df.t, emptyRaises)}, ht \in {HasTags(loc.df.t, emptyRaises)} :
       IF hs.raised \/ ht.raised
       THEN /\ loc' = loc
            /\ out' = out
            /\ page' = EndPage("raised", IF hs.raised THEN hs.exc ELSE ht.exc)
            /\ pc' = "idle"
       ELSE /\ loc' = [loc EXCEPT
                         !.has_scores = hs.val.v[1],
                         !.has_tags = ht.val.v[1],
                         !.has_sessions = HasIds(loc.df.t, "session_id"),
                         !.has_users = HasIds(loc.df.t, "user_id"),
                         !.has_general_feedback = HasGeneralFeedback(ss.raw_data)]
            /\ IF ~hs.val.v[1] /\ ~ht.val.v[1] /\ ~HasIds(loc.df.t, "session_id")
                  /\ ~HasGeneralFeedback(ss.raw_data)
               THEN /\ out' = Append(out, "info_no_feedback")
                    /\ page' = EndPage("stopped", "none")
                    /\ pc' = "idle"
               ELSE /\ out' = out
                    /\ page' = page
                    /\ pc' = "fb_cards"
  /\ UNCHANGED <<ss, cache, data, merged_df, kpis, run, cards, bins>>
  /\ UNCHANGED parseVars

\* df['scores'].apply(lambda x: len(parse_scores(x))).sum()
RECURSIVE total_scores(_, _)
total_scores(col, i) ==
  IF i > Len(col) THEN 0
  ELSE Len(parse_scores(col[i], emptyRaises).val.v) + total_scores(col, i + 1)

\* ## Key Metrics: Unique Users, Unique Sessions, Avg Q/Session, Feedback Entries
FbCards ==
  /\ pc = "fb_cards"
  /\ LET t == loc.df.t
         users == IF loc.has_users
                  THEN "Unique Users" :> Num(Cardinality(Unique(Column(t, "user_id"))))
                  ELSE <<>>
         sess == Column(t, "session_id")
         sessions ==
           IF loc.has_sessions
           THEN ("Unique Sessions" :> Num(Cardinality(Unique(sess))))
                @@ ("Avg Q/Session" :>
                      Fixed(Q(Len(SelectSeq(sess, NotNull)), Cardinality(Unique(sess))), 10))
           ELSE <<>>
         entries == IF loc.has_scores
                    THEN "Feedback Entries" :> Num(total_scores(Column(t, "scores"), 1))
                    ELSE <<>>
     IN  cards' = users @@ sessions @@ entries
  /\ out' = Append(out, "key_metrics")
  /\ pc' = "fb_tabs"
  /\ UNCHANGED <<ss, cache, data, merged_df, kpis, run, page, loc, reads, bins>>
  /\ UNCHANGED parseVars

\* nbinsx=safe_hist_bins(counts['question_count'])
HistBins(counts) ==
  [called |-> TRUE, series |-> PySeries(counts), default |-> DefaultBins,
   max_bins |-> MaxBins, res |-> safe_hist_bins(PySeries(counts), DefaultBins, MaxBins)]

\* score_rows: one row for every element of a row's parsed scores that is a
\* dict (the row of the model is that dict)
RECURSIVE score_rows(_, _)
score_rows(col, i) ==
  IF i > Len(col) THEN <<>>
  ELSE SelectSeq(parse_scores(col[i], emptyRaises).val.v, LAMBDA score : score.t = "dict")
       \o score_rows(col, i + 1)

\* tabs 1 to 3: the feedback scores, the questions per session and per user
\* with their histograms, the tags; all on tables built by this run
FbTabs ==
  /\ pc = "fb_tabs"
  /\ LET t == loc.df.t
         session_counts ==
           IF loc.has_sessions
           THEN GroupSizes(Column(t, "session_id"), Unique(Column(t, "session_id")))
           ELSE <<>>
         user_counts ==
           IF loc.has_users
           THEN GroupSizes(Column(t, "user_id"), Unique(Column(t, "user_id")))
           ELSE <<>>
     IN  /\ bins' = IF user_counts # <<>> THEN HistBins(user_counts)
                    ELSE IF session_counts # <<>> THEN HistBins(session_counts)
                    ELSE bins
         /\ out' = out
              \o (IF ~loc.has_scores THEN <<"info_no_scores">>
                  ELSE IF score_rows(Column(t, "scores"), 1) # <<>>
                  THEN <<"feedback_scores", "all_feedback_entries">>
                  ELSE <<"feedback_scores", "info_no_structured_feedback">>)
              \o <<IF loc.has_sessions \/ loc.has_users
                   THEN "user_session_analytics" ELSE "info_no_sessions">>
              \o <<IF loc.has_tags THEN "tag_analysis" ELSE "info_no_tags">>
         /\ loc' = IF loc.has_scores
                   THEN [loc EXCEPT !.score_rows = score_rows(Column(t, "scores"), 1)]
                   ELSE loc
  /\ pc' = "fb_tab4"
  /\ UNCHANGED <<ss, cache, data, merged_df, kpis, run, page, reads, cards>>
  /\ UNCHANGED parseVars

\* gf_df[mask], mask = rows whose text contains the search text, case ignored
Search(t, text) ==
  Frame(t.cols, SelectSeq(t.rows, LAMBDA r : Contains(lower(RowText(r)), lower(text))))

\* gf_df['date'] = pd.to_datetime(gf_df['timestamp'], errors='coerce').dt.date
\* (the cells of the model are no dates: NaT)
WithDate(t) ==
  Frame(t.cols \cup {"date"}, [i \in 1..len(t) |-> t.rows[i] @@ ("date" :> <<>>)])

\* tab 4, General Feedback: the copy of raw_data['general_feedback'], the
\* search box (shown when a column other than id, trace_id exists; `search` is
\* the text it holds), the filter, the table, the 'date' column and the
\* submissions per day
FbTab4(search) ==
  /\ pc = "fb_tab4"
  /\ IF ~loc.has_general_feedback
     THEN /\ search = <<>>
          /\ out' = Append(out, "info_no_general_feedback")
          /\ page' = EndPage("completed", "none")
          /\ UNCHANGED <<ss, loc, cards>>
     ELSE LET gf0 == copy(Ref("general_feedback", ss.raw_data["general_feedback"]))
              display_cols == gf0.t.cols \ {"id", "trace_id"}
              gf1 == IF display_cols # {} /\ search # <<>>
                     THEN Ref("local", Search(gf0.t, search))
                     ELSE gf0
              dated == "timestamp" \in gf1.t.cols /\ len(gf1.t) > 1
              gf2 == IF dated THEN Ref(gf1.obj, WithDate(gf1.t)) ELSE gf1
          IN  /\ display_cols = {} => search = <<>>
              /\ loc' = [loc EXCEPT !.gf_df = gf2]
              /\ cards' = cards @@ ("Total Submissions" :> Num(len(gf0.t)))
              /\ ss' = IF gf2.obj = "general_feedback"
                       THEN [ss EXCEPT !.raw_data = ("general_feedback" :> gf2.t) @@ @]
                       ELSE ss
              /\ out' = out \o <<"general_feedback_table">>
                            \o (IF dated THEN <<"submissions_over_time">> ELSE <<>>)
              /\ page' = [EndPage("completed", "none") EXCEPT !.search = search]
  /\ pc' = "idle"
  /\ UNCHANGED <<cache, data, merged_df, kpis, run, reads, bins>>
  /\ UNCHANGED parseVars

\* ----------------------------------------------- the pages, on a session
PageInit ==
  /\ \E kind \in {"fresh", "cost", "timestamps", "feedback", "general_feedback"} :
       CASE kind = "fresh" -> ss = NoSession
         [] kind = "cost" ->
              \E cols \in SUBSET CostCols, k \in 0..MaxTblRows :
                 \E rows \in [1..k -> RowsOver(cols)] :
                    ss = PageSession(Frame(cols, rows), NoRaw)
         [] kind = "timestamps" ->
              \E dtype \in {"datetime", "str"}, k \in 1..MaxTblRows :
                 \E rows \in [1..k -> TsRowsOver(dtype)] :
                    ss = PageSession(Frame(CostCols, rows), NoRaw)
         [] kind = "feedback" ->
              \E cols \in SUBSET FbCols, k \in 0..MaxFbRows :
                 \E rows \in [1..k -> FbRowsOver(cols)] :
                    ss = PageSession(Frame(cols, rows), NoRaw)
         [] kind = "general_feedback" ->
              \E rd \in RawDatas : ss = PageSession(OneRow, rd)
  /\ page = NoPage
  /\ loc = NoLocals
  /\ reads = {}
  /\ cards = <<>>
  /\ bins = NoBins
  /\ pc = "idle"
  /\ out = <<>>
  /\ cache = [hit |-> FALSE, val |-> EmptyData]
  /\ data = EmptyData
  /\ merged_df = NoTable
  /\ kpis = NoKpis
  /\ run = NoRun
  /\ arg = PyNone
  /\ emptyRaises = FALSE
  /\ call = "none"
  /\ res = Returned(PyNone)

PageNext ==
  \/ \E p \in PageNames : OpenPage(p)
  \/ EnsureLoaded
  \/ CopyDf
  \/ CheckEmpty
  \/ CostHas
  \/ CostCards
  \/ CostTab1
  \/ CostTab2
  \/ CostTab3
  \/ FbHas
  \/ FbCards
  \/ FbTabs
  \/ \E search \in SearchTexts : FbTab4(search)

PageSpec == PageInit /\ [][PageNext]_vars

\* ------------------------------------------ safe_hist_bins, applied
BinsInit ==
  /\ bins \in [called : {FALSE}, series : BinSeries, default : BinDefaults,
               max_bins : BinMaxes, res : {Returned(PyNone)}]
  /\ ss = NoSession
  /\ page = NoPage
  /\ loc = NoLocals
  /\ reads = {}
  /\ cards = <<>>
  /\ pc = "idle"
  /\ out = <<>>
  /\ cache = [hit |-> FALSE, val |-> EmptyData]
  /\ data = EmptyData
  /\ merged_df = NoTable
  /\ kpis = NoKpis
  /\ run = NoRun
  /\ arg = PyNone
  /\ emptyRaises = FALSE
  /\ call = "none"
  /\ res = Returned(PyNone)

CallSafeHistBins ==
  /\ ~bins.called
  /\ bins' = [bins EXCEPT !.called = TRUE,
                          !.res = safe_hist_bins(bins.series, bins.default, bins.max_bins)]
  /\ UNCHANGED <<appVars, parseVars, page, loc, reads, cards>>

BinsNext == CallSafeHistBins

BinsSpec == BinsInit /\ [][BinsNext]_vars

\* =================================================================== claims
IsNull(x) == x.t \in {"none", "nan"}
IsParseCall == call \in {"parse_scores", "parse_tags"}
ResIsList(l) == ~res.raised /\ res.val.t = "list" /\ res.val.v = l
DecodesToList(s) == ~json_loads(s).raised /\ json_loads(s).val.t = "list"
MinOf(S) == CHOOSE x \in S : \A y \in S : x <= y
MaxOf(S) == CHOOSE x \in S : \A y \in S : y <= x

\* The tags a comma-separated string names, stated without the code's loop:
\* the text between neighbouring commas (or the ends), cut down to the span
\* from its first to its last non-blank character, blanks-only spans dropped.
Trimmed(p) ==
  LET keep == {i \in 1..Len(p) : p[i] \notin WS}
  IN  IF keep = {} THEN <<>> ELSE SubSeq(p, MinOf(keep), MaxOf(keep))
RECURSIVE TagsFrom(_, _)
TagsFrom(s, a) ==
  LET cuts == {i \in 1..Len(s) : s[i] = ","} \cup {Len(s) + 1}
      b == MinOf({c \in cuts : c > a})
      piece == Trimmed(SubSeq(s, a + 1, b - 1))
  IN  (IF Len(piece) > 0 THEN <<PyStr(piece)>> ELSE <<>>)
      \o (IF b > Len(s) THEN <<>> ELSE TagsFrom(s, b))
ExpectedTags(s) == TagsFrom(s, 0)
L_abc == <<PyStr(<<"a">>), PyStr(<<"b">>), PyStr(<<"c">>)>>
NotJson(x) == x.t = "str" /\ Len(x.v) > 0 /\ json_loads(x.v).raised

\* C1: parse_scores and parse_tags return [] for None/NaN, "" and "[]", and
\* return the decoded list for a string that is a valid JSON list
\* ('[{"name":"x"}]' gives [{"name":"x"}], '["a", "b"]' gives ["a","b"]).
C1_EmptyAndJsonList ==
  IsParseCall =>
    /\ (IsNull(arg) \/ IsStr(arg, <<>>) \/ IsStr(arg, <<"[", "]">>)) => ResIsList(<<>>)
    /\ (arg.t = "str" /\ DecodesToList(arg.v)) => ResIsList(json_loads(arg.v).val.v)
    /\ IsStr(arg, S_name_x) => ResIsList(<<D_name_x>>)
    /\ IsStr(arg, S_two_strs) => ResIsList(<<PyStr(<<"a">>), PyStr(<<"b">>)>>)
    /\ IsStr(arg, <<"[", "5", "]">>) => ResIsList(<<PyInt(5)>>)

C1_Witness ==
  /\ call = "parse_scores"
  /\ IsStr(arg, S_name_x)
  /\ ResIsList(<<D_name_x>>)

\* C2: parse_tags of a non-empty string that is not valid JSON is the list of
\* its comma-separated pieces, stripped, in order, empty pieces removed;
\* parse_tags("a,b,c") is ["a","b","c"].
C2_TagsFallbackSplit ==
  (call = "parse_tags" /\ NotJson(arg)) =>
    /\ ResIsList(ExpectedTags(arg.v))
    /\ IsStr(arg, S_abc) => ResIsList(L_abc)
    /\ IsStr(arg, S_spaced) => ResIsList(<<PyStr(<<"a">>), PyStr(<<"b">>)>>)

C2_Witness ==
  /\ call = "parse_tags"
  /\ IsStr(arg, S_abc)
  /\ ResIsList(L_abc)

\* C3 as claimed: parse_scores of a string that is not valid JSON is split on
\* commas like a tags field, so parse_scores("a,b,c") is ["a","b","c"].
C3_ScoresFallbackSplit ==
  (call = "parse_scores" /\ NotJson(arg)) =>
    /\ ResIsList(ExpectedTags(arg.v))
    /\ IsStr(arg, S_abc) => ResIsList(L_abc)

\* C3 amended: parse_scores has no delimiter fallback: a non-empty string that
\* is not valid JSON gives the empty list, so parse_scores("a,b,c") is [].
C3_ScoresNoFallback ==
  (call = "parse_scores" /\ NotJson(arg)) => ResIsList(<<>>)

C3_Witness ==
  /\ call = "parse_scores"
  /\ IsStr(arg, S_abc)
  /\ ResIsList(<<>>)

\* C4: parse_scores and parse_tags never raise, whatever the input (a string,
\* an actual list of 0, 1, 2 or more elements, a null, any other type), and an
\* actual list is returned unchanged.
C4_NeverRaises ==
  IsParseCall =>
    /\ ~res.raised
    /\ arg.t = "list" => ResIsList(arg.v)

\* C5: the result of parse_scores and parse_tags is always a list, also for a
\* string that is valid JSON but no list ("5", "{}", "null"), so the callers
\* that take len() of the result of a string field never fail.
C5_AlwaysList ==
  /\ (IsParseCall /\ ~res.raised) => res.val.t = "list"
  /\ (call \in {"has_scores", "has_tags"} /\ arg.t = "str") => ~res.raised

LastTwo(s) == IF Len(s) < 2 THEN <<>> ELSE SubSeq(s, Len(s) - 1, Len(s))

\* C6: when load_data_from_s3 raises in a run of main (the call in the try
\* block), the run shows the error and the troubleshooting hints and halts: no
\* merge, no KPIs, no write to the session state and nothing rendered after
\* the hints in that run.
C6_HaltsAfterLoadError ==
  run.first = "raised" =>
    /\ run.merges = 0
    /\ run.kpicalls = 0
    /\ run.writes = 0
    /\ DataPart(ss) = run.ss0
    /\ LastTwo(out) = <<"error_s3", "troubleshooting">>

\* C7: no automatic retry: one run of main calls load_data_from_s3 at most
\* once, and not again after a call that failed.
C7_LoadAtMostOnce == run.loads <= 1

\* the run has tested the `data` its load returned, and it was empty
SawEmptyData == run.last = "empty" /\ pc \notin {"load2", "check_data"}

\* C8: when the load main acts on (the one whose result `if not data` tests)
\* returns an empty result, the run shows the 'No data available' error and
\* its tip and halts: merge_data_for_dashboard and calculate_kpis are not
\* called, and merged_df, raw_data and kpis in the session state are as they
\* were when the run started.
C8_EmptyDataHalts ==
  SawEmptyData =>
    /\ pc = "idle"
    /\ run.end = "stop"
    /\ LastTwo(out) = <<"error_no_data", "tip_no_data">>
    /\ run.merges = 0
    /\ run.kpicalls = 0
    /\ run.writes = 0
    /\ DataPart(ss) = run.ss0

\* an empty result halts a run of a session that already holds loaded data
C8_Witness ==
  /\ SawEmptyData
  /\ run.end = "stop"
  /\ DataKeys \subseteq ss.keys
  /\ LastTwo(out) = <<"error_no_data", "tip_no_data">>

\* C9: within a run the steps come in the order fetch, merge, KPIs, store:
\* merge is called only after a fetch returned non-empty data, calculate_kpis
\* only after merge returned a non-empty table, and merged_df, raw_data and
\* kpis in the session state change only after calculate_kpis returned.
C9_StepOrder ==
  [][ /\ run'.merges > run.merges => (run.got_data /\ data # EmptyData)
      /\ run'.kpicalls > run.kpicalls => (run.merged_ok /\ ~IsEmptyTable(merged_df))
      /\ DataPart(ss') # DataPart(ss) => (run.kpis_ok /\ run.merges = 1 /\ run.loads >= 1)
    ]_vars

C9_Witness ==
  /\ run.writes = 1
  /\ run.kpicalls = 1
  /\ run.merges = 1
  /\ DataPart(ss) # run.ss0

\* the run is over and the load main acted on returned non-empty data whose
\* questions table exists
RunOverWithData ==
  pc = "idle" /\ run.end # "none" /\ run.last = "data" /\ data.q >= 0

\* C10: after a run in which the load returned non-empty data, merged_df,
\* raw_data and kpis in the session state are the values derived from that
\* data, also when the merged table of that load is empty.
C10_SessionRecreated ==
  RunOverWithData =>
    LET m == merge_data_for_dashboard(data).val
    IN  /\ DataKeys \subseteq ss.keys
        /\ ss.raw_data = data
        /\ ss.merged_df = m
        /\ ss.kpis = calculate_kpis(m, data)

\* C11: in every reachable session state the keys merged_df, raw_data and kpis
\* are all absent or all present, and when present they come from one load:
\* merged_df is the merge of raw_data and kpis is calculate_kpis of the two.
C11_DataKeysCoherent ==
  /\ (ss.keys \cap DataKeys) \in {{}, DataKeys}
  /\ DataLoaded(ss) =>
       /\ ~merge_data_for_dashboard(ss.raw_data).raised
       /\ ss.merged_df = merge_data_for_dashboard(ss.raw_data).val
       /\ ss.kpis = calculate_kpis(ss.merged_df, ss.raw_data)

\* a run has overwritten the data of an earlier load with different data
C11_Witness ==
  /\ DataLoaded(ss)
  /\ run.ss0.keys = DataKeys
  /\ run.writes = 1
  /\ ss.raw_data # run.ss0.raw_data

\* C12: a run of the Cost page or of the Feedback page leaves the values stored
\* under merged_df, raw_data and kpis (tables with their columns and rows, the
\* general_feedback table included) as they were, whatever the table and the
\* search text.
C12_PagesLeaveData == [][DataPart(ss') = DataPart(ss)]_vars

\* the Feedback page has shown an unfiltered general_feedback table and has
\* added the 'date' column to its own table
C12_Witness ==
  /\ page.name = "feedback"
  /\ page.end = "completed"
  /\ page.search = <<>>
  /\ "date" \in loc.gf_df.t.cols
  /\ "date" \notin ss.raw_data["general_feedback"].cols

\* C13: no exception leaves the main function of a page: a run never ends by
\* an exception that main did not catch.
C13_NoExceptionLeavesMain == page.end # "raised"

RECURSIVE SumAt(_, _)
SumAt(col, I) ==
  IF I = {} THEN 0
  ELSE LET i == CHOOSE j \in I : TRUE IN col[i] + SumAt(col, I \ {i})
NonNullAt(col) == {i \in 1..Len(col) : col[i] # NULL}
PositiveAt(col) == {i \in 1..Len(col) : col[i] # NULL /\ col[i] > 0}
\* the card shows n, the fraction total/count rounded to 1/unit
ShowsMean(card, total, count, unit) ==
  /\ card.kind = "num"
  /\ 2 * card.n * count - 2 * unit * total \in (0 - count)..count
CostCardsShown == page.name = "cost" /\ "Total Cost" \in DOMAIN cards
LatencyCardsShown == page.name = "cost" /\ "Avg Latency" \in DOMAIN cards
Costs == Column(loc.df.t, "total_cost")
Latencies == Column(loc.df.t, "latency")

\* C14: the KPI cards show, as total cost, the sum of the non-null costs; as
\* average cost, the mean of the costs > 0; as average latency, the mean of
\* the latencies > 0. For costs [0.001, 0.002, 0.0] and latencies
\* [1.0, 2.0, 0.0]: $0.0030, $0.001500 and 1.50s.
C14_KpiCards ==
  /\ CostCardsShown =>
       /\ cards["Total Cost"] = Num(10 * SumAt(Costs, NonNullAt(Costs)))
       /\ PositiveAt(Costs) # {} =>
            ShowsMean(cards["Avg Cost / Question"], SumAt(Costs, PositiveAt(Costs)),
                      Cardinality(PositiveAt(Costs)), 1000)
       /\ Costs = <<1, 2, 0>> =>
            /\ cards["Total Cost"] = Num(30)
            /\ cards["Avg Cost / Question"] = Num(1500)
  /\ LatencyCardsShown =>
       /\ PositiveAt(Latencies) # {} =>
            ShowsMean(cards["Avg Latency"], SumAt(Latencies, PositiveAt(Latencies)),
                      Cardinality(PositiveAt(Latencies)), 100)
       /\ Latencies = <<1, 2, 0>> => cards["Avg Latency"] = Num(150)

\* the scenario: three questions, costs [0.001, 0.002, 0.0], latencies [1.0, 2.0, 0.0]
C14_Witness ==
  /\ CostCardsShown
  /\ LatencyCardsShown
  /\ Costs = <<1, 2, 0>>
  /\ Latencies = <<1, 2, 0>>
  /\ cards["Total Cost"] = Num(30)
  /\ cards["Avg Cost / Question"] = Num(1500)
  /\ cards["Avg Latency"] = Num(150)

PercentilesShown ==
  page.name = "cost" /\ "P50 (Median)" \in DOMAIN cards /\ ~empty(loc.lat_df)
LatValues == {loc.lat_df.rows[i]["latency"] : i \in 1..len(loc.lat_df)}

\* C15: for a non-empty series of positive latencies the percentiles the
\* Latency Analysis tab shows satisfy min <= P50 <= P90 <= P95 <= P99 <= max.
C15_PercentilesOrdered ==
  PercentilesShown =>
    /\ \A l \in {"Min", "P50 (Median)", "P90", "P95", "P99"} : cards[l].kind = "num"
    /\ cards["Min"].n = 1000 * MinOf(LatValues)
    /\ cards["Min"].n <= cards["P50 (Median)"].n
    /\ cards["P50 (Median)"].n <= cards["P90"].n
    /\ cards["P90"].n <= cards["P95"].n
    /\ cards["P95"].n <= cards["P99"].n
    /\ cards["P99"].n <= 1000 * MaxOf(LatValues)

\* three latencies, not in order, whose percentiles all differ
C15_Witness ==
  /\ PercentilesShown
  /\ Column(loc.lat_df, "latency") = <<2, 1, 2>>
  /\ cards["Min"].n < cards["P50 (Median)"].n
  /\ cards["P90"].n <= cards["P95"].n

ThemeStep ==
  /\ "theme" \in ss.keys => "theme" \in ss'.keys
  /\ "theme" \in ss'.keys => ss'.theme \in {"light", "dark"}
  /\ "theme" \notin ss.keys /\ "theme" \in ss'.keys => ss'.theme = "light"
  /\ "theme" \in ss.keys /\ ss'.theme # ss.theme =>
       pc = "sidebar" /\ run.trigger = "theme"
  /\ pc = "sidebar" /\ pc' # pc /\ run.trigger = "theme" =>
       /\ ss'.theme = OtherTheme(ss.theme)
       /\ ss'.theme # ss.theme
       /\ OtherTheme(ss'.theme) = ss.theme
       /\ DataPart(ss') = DataPart(ss)

\* C16: the session theme is light or dark; a run sets it to light when the
\* session has none; only the theme toggle changes it, to the other value (a
\* second toggle gives the first value back); the toggle leaves merged_df,
\* raw_data and kpis as they were.
C16_Theme == [][ThemeStep]_vars

\* a toggle has made a session with loaded data dark
C16_Witness == DataLoaded(ss) /\ ss.theme = "dark" /\ run.end = "rerun"

CostCheck ==
  pc = "has_cost" =>
    /\ loc'.has_cost <=>
         /\ "total_cost" \in loc.df.t.cols
         /\ \E i \in 1..len(loc.df.t) : loc.df.t.rows[i]["total_cost"] # NULL
    /\ loc'.has_latency <=>
         /\ "latency" \in loc.df.t.cols
         /\ \E i \in 1..len(loc.df.t) : loc.df.t.rows[i]["latency"] # NULL
    /\ ~loc'.has_cost /\ ~loc'.has_latency =>
         /\ out' = Append(out, "info_no_cost_or_latency")
         /\ page'.end = "stopped"
         /\ pc' = "idle"
CostShown ==
  page.name = "cost" =>
    /\ (reads \cap {"total_cost", "latency"}) \subseteq loc.df.t.cols
    /\ "total_cost" \in reads \cap DOMAIN cards => loc.has_cost
    /\ (cards # <<>> \/ pc \in {"tab1", "tab2", "tab3"} \/ page.end = "completed") =>
         loc.has_cost \/ loc.has_latency
    /\ ~loc.has_cost =>
         DOMAIN cards \cap {"Total Cost", "Avg Cost / Question", "Traces with Cost"} = {}
    /\ ~loc.has_latency =>
         DOMAIN cards \cap {"Avg Latency", "P95 Latency", "Median Latency",
                            "P99 Latency", "P95"} = {}

\* C17: the Cost page takes the cost (the latency) data as present exactly
\* when the column total_cost (latency) exists and holds a non-null value;
\* with neither it shows the 'No cost or latency data available yet' message
\* and halts before any KPI card or tab; it never reads total_cost or latency
\* when that column is absent.
C17_CostPresence == [][CostCheck]_vars /\ []CostShown

\* the page has halted on a table whose cost column exists and is all null
C17_Witness ==
  /\ page.name = "cost"
  /\ page.end = "stopped"
  /\ "total_cost" \in loc.df.t.cols
  /\ "latency" \notin loc.df.t.cols
  /\ len(loc.df.t) = 2
  /\ out = <<"title", "info_no_cost_or_latency">>

LatencyLabels == {"Avg Latency", "Median Latency", "P95 Latency", "P99 Latency"}
KpiCardsDone == page.name = "cost" /\ out # <<>> /\ "key_metrics" \in {out[i] : i \in 1..Len(out)}

\* C18 (as stated): the KPI cards never fail; without a row of latency > 0 the
\* four latency cards show "N/A", without a row of total_cost > 0 the Avg Cost
\* / Question card shows "N/A"; a card shows a number only when its column
\* holds a strictly positive value.
C18_NumberOnlyIfPositive ==
  KpiCardsDone =>
    /\ page.exc # "ZeroDivisionError"
    /\ \A l \in DOMAIN cards \cap LatencyLabels :
         cards[l].kind = "num" => PositiveAt(Latencies) # {}
    /\ \A l \in DOMAIN cards \cap {"Avg Cost / Question", "Traces with Cost"} :
         cards[l].kind = "num" => PositiveAt(Costs) # {}

\* C18 (amended): the KPI cards never fail; each of the four latency cards
\* shows a number when a row has latency > 0 and "N/A" otherwise; the Avg
\* Cost / Question card shows a number when a row has total_cost > 0 and "N/A"
\* otherwise; the Traces with Cost card always shows a number, the count of
\* rows with total_cost > 0.
C18_NaWithoutPositive ==
  KpiCardsDone =>
    /\ page.exc # "ZeroDivisionError"
    /\ \A l \in DOMAIN cards \cap LatencyLabels :
         cards[l].kind = IF PositiveAt(Latencies) # {} THEN "num" ELSE "N/A"
    /\ CostCardsShown =>
         /\ cards["Avg Cost / Question"].kind =
              IF PositiveAt(Costs) # {} THEN "num" ELSE "N/A"
         /\ cards["Traces with Cost"] = Num(Cardinality(PositiveAt(Costs)))

\* both columns hold values and none is positive
C18_Witness ==
  /\ KpiCardsDone
  /\ CostCardsShown
  /\ LatencyCardsShown
  /\ PositiveAt(Costs) = {}
  /\ PositiveAt(Latencies) = {}
  /\ cards["Avg Latency"] = NA
  /\ cards["Avg Cost / Question"] = NA

\* C19: once app.main has loaded the data and stored it in the session, the
\* data_loaded flag is True.
C19_FlagSetByStore == run.writes > 0 => ss.data_loaded

\* C20: safe_hist_bins returns a valid bin count for every series: for
\* default >= 1 and max_bins >= 1 the call returns an integer between 1 and
\* max(default, max_bins).
C20_ValidBinCount ==
  bins.called =>
    /\ ~bins.res.raised
    /\ bins.res.val.t = "int"
    /\ bins.res.val.v[1] >= 1
    /\ bins.res.val.v[1] <= MaxOf({bins.default, bins.max_bins})

\* C21: the Cost page does not raise on a table without a timestamp column:
\* whatever has_cost and has_latency are, a run over such a table never ends by
\* an exception.
C21_NoTimestampNoRaise ==
  page.name = "cost" /\ "timestamp" \notin loc.df.t.cols => page.end # "raised"

\* C22: no division of the Cost page is by zero. The share shown with the
\* Traces with Cost card is computed on a table of at least one row, of which
\* at most all have a cost > 0, so it lies between 0 and 100 %; the divisor of
\* the estimated daily cost rate is at least 1.
C22_DivisorsPositive ==
  /\ \A d \in loc.divisors : d.by >= 1
  /\ page.exc # "ZeroDivisionError"
  /\ CostCardsShown =>
       /\ len(loc.df.t) >= 1
       /\ Divided("questions_with_cost", len(loc.df.t)) \in loc.divisors
       /\ Cardinality(PositiveAt(Costs)) <= len(loc.df.t)
       /\ cards["Traces with Cost (delta)"].kind = "num"
       /\ cards["Traces with Cost (delta)"].n \in 0..1000

\* two questions of the same day, one with a cost > 0: 50.0 % of the traces,
\* and a daily rate over max(1, 0) days
C22_Witness ==
  /\ page.name = "cost"
  /\ page.end = "completed"
  /\ CostCardsShown
  /\ "timestamp" \in loc.df.t.cols
  /\ Costs = <<1, 0>>
  /\ Column(loc.df.t, "timestamp") = <<9, 9>>
  /\ cards["Traces with Cost (delta)"] = Num(500)
  /\ loc.divisors = {Divided("questions_with_cost", 2), Divided("daily_rate", 1)}

Shown(what) == \E i \in 1..Len(out) : out[i] = what

\* C23: the Feedback page halts with the 'No feedback data available yet'
\* message only when none of the five kinds of data is present: no parsed
\* scores, no parsed tags, no session id, no user id, no general feedback.
C23_HaltsOnlyWithoutData ==
  page.name = "feedback" /\ Shown("info_no_feedback") =>
    /\ ~loc.has_scores
    /\ ~loc.has_tags
    /\ ~HasIds(loc.df.t, "session_id")
    /\ ~HasIds(loc.df.t, "user_id")
    /\ ~HasGeneralFeedback(ss.raw_data)

\* C24: the 'Feedback Entries' KPI is the number of rows of the 'All Feedback
\* Entries' table: whenever the page has scores, the score table is shown, is
\* not empty and has as many rows as the KPI counts.
C24_EntriesMatchTable ==
  page.name = "feedback" /\ Shown("feedback_scores") =>
    /\ Shown("all_feedback_entries")
    /\ Len(loc.score_rows) > 0
    /\ cards["Feedback Entries"] = Num(Len(loc.score_rows))

RECURSIVE SumField(_, _)
SumField(groups, f) ==
  IF groups = <<>> THEN 0 ELSE Head(groups)[f] + SumField(Tail(groups), f)
\* the weekly table counts every row with a cost > 0, with its cost
CountsAllCosts(groups) ==
  /\ SumField(groups, "question_count") = Cardinality(PositiveAt(Costs))
  /\ SumField(groups, "total_cost") = SumAt(Costs, PositiveAt(Costs))

\* C25: in the weekly cost breakdown (and in the weekly table of the cost
\* against volume chart) every row with a total_cost > 0 is in exactly one
\* week: the question counts of the weeks sum to the number of such rows and
\* the weekly costs to the sum of their costs, whatever the timestamps are.
C25_WeeksCountEveryCost ==
  page.name = "cost" =>
    /\ Shown("weekly_cost") => CountsAllCosts(loc.weekly_cost)
    /\ Shown("cost_vs_volume") => CountsAllCosts(loc.weekly_corr)

====
